---- MODULE Spec2Model ----
(***************************************************************************)
(* A model of ikago's pcap transport core (internal/pcap):                 *)
(*   fragment.go  the IPv4 fragmenter (CreateFragmentPackets) and the easy *)
(*                defragmenter (fragIndicator, EasyDefragmenter)           *)
(*   conn.go      the fake-TCP connection (Conn) and the Listener          *)
(*                                                                         *)
(* SpecFrag drives the fragmenter loop iteration by iteration over bounded *)
(* inputs and feeds the frames it returns to an EasyDefragmenter in every  *)
(* order.                                                                  *)
(*                                                                         *)
(* Spec is a client Conn made by Dial with all its calls and goroutines    *)
(* (reader, writer, timers, reconnect), the frames it captures forged by   *)
(* the network.  SpecListen is that client with a Listener and the server  *)
(* Conn its Accept makes, joined by a loopback wire.                       *)
(***************************************************************************)
EXTENDS Integers, Sequences, FiniteSets, TLC

\* ------------------------------------------------------------------ sizes

\* Bytes of a serialised IPv4 header without options (networkLayerData).
NetHdrLen == 20
\* Bytes of a serialised TCP header without options.
TcpHdrLen == 20

\* Bounds of the fragmenter inputs: the MTU ("fragment") ranges over
\* NetHdrLen + MinRoom .. NetHdrLen + MaxRoom and the payload over 0..MaxPayload bytes.
MinRoom == 6
MaxRoom == 17
MaxPayload == 14
\* The clock runs over 1..MaxTime.
MaxTime == 3
\* The non-zero fragment deadline SetDeadline is given in SpecFrag.
FragDeadline == 1

Nil == [nil |-> TRUE]

\* Go's integer division truncates toward zero.
GoDiv(a, b) == IF a >= 0 THEN a \div b ELSE -((-a) \div b)

min(a, b) == IF a > b THEN b ELSE a

U16(x) == x % 65536

VARIABLES
    \* ---- CreateFragmentPackets (fragment.go:240)
    fragment,             \* the MTU parameter
    networkLayerPayload,  \* bytes after the network header: transport header, payload
    fi,                   \* the loop variable i
    fragments,            \* the frames emitted so far
    fpc,                  \* "loop" | "returned" | "panic"
    \* ---- EasyDefragmenter (fragment.go:130)
    defragFrags,          \* defrag.frags: flow -> fragIndicator or Nil
    defragDeadline,       \* defrag.deadline
    fed,                  \* indices of the frames already appended
    appendOut,            \* what each Append call returned, in call order
    now,                  \* the wall clock
    \* ---- Conn and Listener (conn.go)
    conn,                 \* ConnIds -> the Conn's fields and its goroutines
    listener,             \* the Listener: its capture queue, clients, Accept results
    wire,                 \* every frame a raw connection wrote, in order
    env                   \* what the surroundings did so far: raw write failures, forged frames

fragVars == <<fragment, networkLayerPayload, fi, fragments, fpc,
              defragFrags, defragDeadline, fed, appendOut>>

connVars == <<conn, listener, wire, env>>

vars == <<fragVars, now, connVars>>

\* ------------------------------------------------------------ fragIndicator

\* A parsed IPv4 packet as the defragmenter sees it (PacketIndicator):
\* NetworkId, SrcIP, FragOffset (8-byte units), MoreFragments, NetworkPayload.
Packet(id, src, off, mf, body) ==
    [id |-> id, src |-> src, off |-> off, mf |-> mf, body |-> body]

IsFrag(ind) == ind.mf \/ ind.off # 0

newFragIndicator(t) == [length |-> 0, offset |-> 0, frags |-> <<>>, lastSeen |-> t]

\* sort.Slice by FragOffset after appending at the end: the new element goes
\* behind every element whose offset is not greater.
RECURSIVE SortedInsert(_, _)
SortedInsert(s, ind) ==
    IF s = <<>> THEN <<ind>>
    ELSE IF ind.off < Head(s).off THEN <<ind>> \o s
    ELSE <<Head(s)>> \o SortedInsert(Tail(s), ind)

IndicatorAppend(indicator, ind, t) ==
    [length   |-> IF ind.mf THEN U16(indicator.length + Len(ind.body))
                  ELSE indicator.length,
     offset   |-> IF ind.mf THEN indicator.offset ELSE ind.off,
     frags    |-> SortedInsert(indicator.frags, ind),
     lastSeen |-> t]

isCompleted(indicator) == indicator.length \div 8 = indicator.offset

RECURSIVE ConcatBodies(_)
ConcatBodies(s) == IF s = <<>> THEN <<>> ELSE Head(s).body \o ConcatBodies(Tail(s))

\* The first fragment's header with MF and the offset cleared, all bodies in order.
concatenate(indicator) ==
    [indicator.frags[1] EXCEPT !.off = 0, !.mf = FALSE,
                               !.body = ConcatBodies(indicator.frags)]

\* --------------------------------------------------------- EasyDefragmenter

Flow(ind) == <<ind.id, ind.src>>

\* defrag.frags[flow] after the lookup, never replaced for its age.
LookupIndicatorKeep(frags, deadline, flow, t) ==
    IF flow \in DOMAIN frags /\ frags[flow] # Nil THEN frags[flow] ELSE newFragIndicator(t)

\* defrag.frags[flow] after the lookup and the two replacements.
LookupIndicator(frags, deadline, flow, t) ==
    LET found == IF flow \in DOMAIN frags /\ frags[flow] # Nil
                 THEN frags[flow] ELSE newFragIndicator(t)
    IN  IF deadline > 0 /\ t - found.lastSeen > deadline
        THEN newFragIndicator(t) ELSE found

MapPut(m, k, v) == [x \in DOMAIN m \cup {k} |-> IF x = k THEN v ELSE m[x]]

\* AppendOriginal: the new table and the packet returned (Nil for none).
AppendOriginal(frags, deadline, ind, t) ==
    IF ~IsFrag(ind) THEN [frags |-> frags, out |-> ind]
    ELSE LET flow == Flow(ind)
             indicator == IndicatorAppend(LookupIndicator(frags, deadline, flow, t), ind, t)
         IN  IF ~isCompleted(indicator)
             THEN [frags |-> MapPut(frags, flow, indicator), out |-> Nil]
             ELSE [frags |-> MapPut(frags, flow, Nil), out |-> concatenate(indicator)]

\* ---------------------------------------------------- CreateFragmentPackets

\* "Align": a fragment that is not the last is cut down to a multiple of 8.
AlignLength(length, remain) ==
    IF remain > 0 THEN GoDiv(length, 8) * 8 ELSE length

\* LeaveTail without the rule: the length is left as aligned.
LeaveTailNone(length, remain) == length

\* "Leave at least 8 Bytes for last fragment".
LeaveTail(length, remain) ==
    IF remain > 0 /\ remain < 8 THEN length - 8 ELSE length

\* One iteration of the loop at offset i over n payload bytes with room for
\* max bytes in a frame: the body length and what remains behind it.
Iteration(i, n, max) ==
    LET l0 == min(max, n - i)
        l1 == AlignLength(l0, n - i - l0)
        l2 == LeaveTail(l1, n - i - l1)
    IN  [length |-> l2, remain |-> n - i - l2]

FlowId == 7
FlowSrc == "a"

Bytes(n) == [k \in 1..n |-> k]

InitFragmenter ==
    /\ fragment \in (NetHdrLen + MinRoom)..(NetHdrLen + MaxRoom)
    /\ \E t \in {0, TcpHdrLen} : \E p \in 0..MaxPayload :
          /\ t + p > 0
          /\ networkLayerPayload = Bytes(t + p)
    /\ fi = 0
    /\ fragments = <<>>
    /\ fpc = "loop"

InitDefragmenter ==
    /\ defragFrags = << >>
    /\ defragDeadline \in {0, FragDeadline}
    /\ fed = {}
    /\ appendOut = <<>>

InitFrag ==
    /\ InitFragmenter
    /\ InitDefragmenter
    /\ now = 1
    /\ conn = << >>
    /\ listener = << >>
    /\ wire = << >>
    /\ env = << >>

\* The datagram fits: one frame, the network layer as given.
CreateSingle ==
    /\ fpc = "loop"
    /\ NetHdrLen + Len(networkLayerPayload) <= fragment
    /\ fragments' = <<Packet(FlowId, FlowSrc, 0, FALSE, networkLayerPayload)>>
    /\ fpc' = "returned"
    /\ UNCHANGED <<fragment, networkLayerPayload, fi, defragFrags, defragDeadline,
                   fed, appendOut, now, connVars>>

\* One iteration of "for i := 0; i < len(networkLayerPayload);".  A negative
\* length makes networkLayerPayload[i:i+length] panic.  The loop is followed
\* for at most one iteration more than there are payload bytes.
CreateFragmentStep ==
    /\ fpc = "loop"
    /\ NetHdrLen + Len(networkLayerPayload) > fragment
    /\ fi < Len(networkLayerPayload)
    /\ Len(fragments) <= Len(networkLayerPayload)
    /\ LET n  == Len(networkLayerPayload)
           it == Iteration(fi, n, fragment - NetHdrLen)
       IN  IF it.length < 0
           THEN /\ fpc' = "panic"
                /\ UNCHANGED <<fi, fragments>>
           ELSE /\ fragments' = Append(fragments,
                       Packet(FlowId, FlowSrc, U16(GoDiv(fi, 8)), it.remain > 0,
                              SubSeq(networkLayerPayload, fi + 1, fi + it.length)))
                /\ fi' = fi + it.length
                /\ fpc' = "loop"
    /\ UNCHANGED <<fragment, networkLayerPayload, defragFrags, defragDeadline,
                   fed, appendOut, now, connVars>>

\* The loop condition fails: return fragments.
CreateReturn ==
    /\ fpc = "loop"
    /\ NetHdrLen + Len(networkLayerPayload) > fragment
    /\ fi >= Len(networkLayerPayload)
    /\ fpc' = "returned"
    /\ UNCHANGED <<fragment, networkLayerPayload, fi, fragments, defragFrags,
                   defragDeadline, fed, appendOut, now, connVars>>

\* EasyDefragmenter.Append of one frame not appended before.
FeedFragment(k) ==
    /\ fpc = "returned"
    /\ k \in DOMAIN fragments
    /\ k \notin fed
    /\ LET r == AppendOriginal(defragFrags, defragDeadline, fragments[k], now)
       IN  /\ defragFrags' = r.frags
           /\ appendOut' = Append(appendOut, r.out)
    /\ fed' = fed \cup {k}
    /\ UNCHANGED <<fragment, networkLayerPayload, fi, fragments, fpc,
                   defragDeadline, now, connVars>>

Tick ==
    /\ now < MaxTime
    /\ now' = now + 1
    /\ UNCHANGED <<fragVars, connVars>>

NextFrag ==
    \/ CreateSingle
    \/ CreateFragmentStep
    \/ CreateReturn
    \/ \E k \in 1..(MaxPayload + TcpHdrLen + 1) : FeedFragment(k)
    \/ Tick

SpecFrag == InitFrag /\ [][NextFrag]_vars

\* SpecDefrag: an EasyDefragmenter that is given any fragments of one flow, in
\* any order, with repeats, while time passes.  fed lists the fragments
\* appended so far with the time of the call.
MaxOff == 2
MaxAppends == 3

\* Lengths of a fragment's payload: not a multiple of 8, and 8.
FragLens == {7, 8}

InitDefrag ==
    /\ fragment = 0
    /\ networkLayerPayload = << >>
    /\ fi = 0
    /\ fragments = << >>
    /\ fpc = "idle"
    /\ defragFrags = << >>
    /\ defragDeadline \in {0, FragDeadline}
    /\ fed = << >>
    /\ appendOut = << >>
    /\ now = 1
    /\ conn = << >>
    /\ listener = << >>
    /\ wire = << >>
    /\ env = << >>

\* EasyDefragmenter.Append of a fragment at offset off (8-byte units) with n
\* bytes, with or without MoreFragments.
AppendFragment(off, mf, n) ==
    /\ Len(fed) < MaxAppends
    /\ LET ind == Packet(FlowId, FlowSrc, off, mf, Bytes(n))
           r == AppendOriginal(defragFrags, defragDeadline, ind, now)
       IN  /\ IsFrag(ind)
           /\ defragFrags' = r.frags
           /\ appendOut' = Append(appendOut, r.out)
           /\ fed' = Append(fed, [ind |-> ind, at |-> now])
    /\ UNCHANGED <<fragment, networkLayerPayload, fi, fragments, fpc,
                   defragDeadline, now, connVars>>

NextDefrag ==
    \/ \E off \in 0..MaxOff : \E mf \in BOOLEAN : \E n \in FragLens : AppendFragment(off, mf, n)
    \/ Tick

SpecDefrag == InitDefrag /\ [][NextDefrag]_vars

\* ===================================================================== Conn

\* ------------------------------------------------------------------ uint32

\* A uint32 is kept as its two 16-bit halves.
Mk32(n) == [hi |-> (n \div 65536) % 65536, lo |-> n % 65536]
Max32 == [hi |-> 65535, lo |-> 65535]
\* a + n modulo 2^32, for a natural number n.
Add32(a, n) ==
    LET s == a.lo + (n % 65536)
    IN  [hi |-> (a.hi + (n \div 65536) + (s \div 65536)) % 65536, lo |-> s % 65536]
\* 4294967295 - a.
Neg32(a) == [hi |-> 65535 - a.hi, lo |-> 65535 - a.lo]
Gt32(a, b) == a.hi > b.hi \/ (a.hi = b.hi /\ a.lo > b.lo)
Lt32(a, b) == Gt32(b, a)

\* ------------------------------------------------------- addresses, frames

ConnIds == {"cli", "srv"}

\* The client's and the server's IP address, and their ports.
CliIP == "c"
SrvIP == "s"
CliPort == 1
SrvPort == 2
Addr(ip, port) == <<ip, port>>
CliAddr == Addr(CliIP, CliPort)
SrvAddr == Addr(SrvIP, SrvPort)

LocalIP(c) == IF c = "cli" THEN CliIP ELSE SrvIP
Peer(c) == IF c = "cli" THEN "srv" ELSE "cli"

\* The MTU both ends are given.
ConnMTU == 44

\* Serialize of a TCP header: source port, destination port, Seq, Ack, the SYN
\* and ACK flags, and the rest of its TcpHdrLen bytes.
TcpHeader(sport, dport, seq, ack, syn, ackf) ==
    <<sport, dport, seq.hi, seq.lo, ack.hi, ack.lo,
      IF syn THEN 1 ELSE 0, IF ackf THEN 1 ELSE 0>> \o [k \in 1..(TcpHdrLen - 8) |-> 0]

\* Bytes of a UDP header.
UdpHdrLen == TcpHdrLen - 12

\* ParsePacket: a packet indicator of a whole (not fragmented) IPv4 packet, or
\* Nil when it holds no transport header.  A UDP header starts with the two
\* ports as well; the TCP fields of a UDP packet are never read.
ParsePacket(f) ==
    IF f.proto = "udp"
    THEN IF Len(f.body) < UdpHdrLen THEN Nil
         ELSE [proto |-> "udp",
               src   |-> Addr(f.src, f.body[1]),
               dst   |-> Addr(f.dst, f.body[2]),
               app   |-> SubSeq(f.body, UdpHdrLen + 1, Len(f.body))]
    ELSE IF Len(f.body) < TcpHdrLen THEN Nil
    ELSE [proto |-> "tcp",
          src   |-> Addr(f.src, f.body[1]),
          dst   |-> Addr(f.dst, f.body[2]),
          seq   |-> [hi |-> f.body[3], lo |-> f.body[4]],
          ack   |-> [hi |-> f.body[5], lo |-> f.body[6]],
          syn   |-> f.body[7] = 1,
          ackf  |-> f.body[8] = 1,
          app   |-> SubSeq(f.body, TcpHdrLen + 1, Len(f.body))]

\* An IPv4 frame on the wire; CreateLayers makes TCP packets only.
Frame(id, src, dst, off, mf, body) ==
    [id |-> id, src |-> src, dst |-> dst, off |-> off, mf |-> mf, body |-> body,
     proto |-> "tcp"]

\* CreateLayers and Serialize of a packet without payload: link, IPv4, TCP.
HandshakeFrame(c, cn, dstAddr, srcPort, client, syn, ackf) ==
    Frame(cn.id, LocalIP(c), dstAddr[1], 0, FALSE,
          TcpHeader(srcPort, dstAddr[2], client.seq, client.ack, syn, ackf))

\* ------------------------------------------------------------------- state

\* clientIndicator: seq and ack (the crypt is the connection's).
ClientIndicator(seq, ack) == [seq |-> seq, ack |-> ack]

NoCall == [pc |-> "idle"]

\* The goroutines of the application that call SetDeadline.
Callers == {1, 2}

\* newConn, dialPassive: the fields of a Conn, its raw connection (capture
\* queue rawq, number of Close calls rawCloses, frames written sent), and its
\* tasks: the ReadFrom call rd with the reader goroutines it and the calls
\* before it started, the WriteTo call wr with the writer goroutines, the
\* reconnect goroutine rc, what the last calls returned, in lastAck the
\* last data packet read from a client with client.ack before and after it,
\* and in sd the SetDeadline calls of the application's goroutines.
NewConn(srcPort, dstAddr) ==
    [open          |-> TRUE,
     srcPort       |-> srcPort,
     dstAddr       |-> dstAddr,
     isConnected   |-> FALSE,
     isReconnected |-> FALSE,
     isClosed      |-> FALSE,
     clients       |-> << >>,
     id            |-> 0,
     readDeadline  |-> 0,
     writeDeadline |-> 0,
     lock          |-> FALSE,
     rawq          |-> << >>,
     rawCloses     |-> 0,
     defrag        |-> << >>,
     sent          |-> 0,
     timeout       |-> 0,
     rd            |-> NoCall,
     readers       |-> << >>,
     lastRead      |-> [n |-> 0, err |-> "none", past |-> FALSE],
     lastAck       |-> Nil,
     wr            |-> NoCall,
     writers       |-> << >>,
     lastWrite     |-> [n |-> 0, err |-> "none", known |-> TRUE, armed |-> FALSE],
     rc            |-> "off",
     cycles        |-> 0,
     sd            |-> [k \in Callers |-> NoCall]]

NoConn == [open |-> FALSE]

IsOpen(c) == conn[c].open

\* What a raw Write can do: it fails on a closed handle, and the device may
\* fail it (at most MaxFail times in a run).
MaxFail == 1
WriteOutcomes(cn) ==
    (IF cn.rawCloses = 0 THEN {TRUE} ELSE {}) \cup
    (IF cn.rawCloses > 0 \/ env.fails < MaxFail THEN {FALSE} ELSE {})

\* After Dial the application makes at most MaxCalls calls on the Conns
\* (ReadFrom, WriteTo, Close, the deadline setters) and the network forges
\* frames, MaxCalls of them together.
MaxCalls == 4
Called(e) == [e EXCEPT !.calls = @ + 1]

\* At most MaxWire frames are written in a run.
MaxWire == 4

\* The BPF filter of a Conn's capture (dialPassive): TCP to its port from its
\* peer, or a later fragment from the peer's IP.  The filter reads the IPv4
\* protocol and the two ports, not the rest of the TCP header.
Captures(cn, c, f) ==
    /\ cn.open
    /\ cn.rawCloses = 0
    /\ f.dst = LocalIP(c)
    /\ f.src = cn.dstAddr[1]
    /\ \/ f.off # 0
       \/ /\ f.proto = "tcp"
          /\ Len(f.body) >= 2
          /\ f.body[2] = cn.srcPort
          /\ f.body[1] = cn.dstAddr[2]

\* The Listener's filter: TCP with SYN set to its port.
ListenerCaptures(f) ==
    /\ f.off = 0
    /\ Len(f.body) >= TcpHdrLen
    /\ f.body[2] = SrvPort
    /\ f.body[7] = 1
    /\ listener.closed = FALSE

\* The captures a frame on the wire reaches.
Deliver(cs, f) ==
    [c \in ConnIds |->
        IF Captures(cs[c], c, f) THEN [cs[c] EXCEPT !.rawq = Append(@, f)] ELSE cs[c]]

DeliverListener(l, f) ==
    IF ListenerCaptures(f) /\ f.dst = SrvIP THEN [l EXCEPT !.q = Append(@, f)] ELSE l

\* The raw connection of Conn c writes frame f (ok) or fails (~ok); cs, l and e
\* are the Conns, the Listener and env as the step leaves them otherwise, cn
\* the Conn that writes.
Send(cs, l, e, c, cn, f, ok) ==
    /\ Len(wire) < MaxWire
    /\ ok \in WriteOutcomes(cn)
    /\ conn' = (IF ok THEN Deliver([cs EXCEPT ![c].sent = @ + 1], f) ELSE cs)
    /\ listener' = (IF ok THEN DeliverListener(l, f) ELSE l)
    /\ wire' = (IF ok THEN Append(wire, f) ELSE wire)
    /\ env' = (IF ~ok /\ cn.rawCloses = 0 THEN [e EXCEPT !.fails = @ + 1] ELSE e)

\* ---------------------------------------------------------------- handshake

Client(cn, key) ==
    IF key \in DOMAIN cn.clients THEN cn.clients[key]
    ELSE ClientIndicator(Mk32(0), Mk32(0))

\* client.seq left as it is.
SeqKeep(seq) == seq

\* "TCP Seq": client.seq++.
SeqInc(seq) == Add32(seq, 1)

\* "IPv4 Id": c.id++.
IdInc(id) == U16(id + 1)

\* handshakeSYN under c.lock: the frame it writes, and the Conn after it.
handshakeSYNFrame(c, cn) ==
    HandshakeFrame(c, cn, cn.dstAddr, cn.srcPort, Client(cn, cn.dstAddr), TRUE, FALSE)

handshakeSYN(cn, ok) ==
    LET client == Client(cn, cn.dstAddr)
    IN  [cn EXCEPT !.clients = MapPut(@, cn.dstAddr,
                        IF ok THEN [client EXCEPT !.seq = SeqInc(@)] ELSE client),
                   !.id = IF ok THEN IdInc(@) ELSE @]

\* handshakeSYNACK for a received SYN.
SynAckClient(cn, indicator) ==
    [Client(cn, indicator.src) EXCEPT !.ack = Add32(indicator.seq, 1)]

handshakeSYNACKFrame(c, cn, indicator) ==
    HandshakeFrame(c, cn, indicator.src, indicator.dst[2], SynAckClient(cn, indicator),
                   TRUE, TRUE)

handshakeSYNACK(cn, indicator, ok) ==
    LET client == SynAckClient(cn, indicator)
    IN  [cn EXCEPT !.clients = MapPut(@, indicator.src,
                        IF ok THEN [client EXCEPT !.seq = SeqInc(@)] ELSE client),
                   !.id = IF ok THEN IdInc(@) ELSE @]

\* client.ack raised by a SYN+ACK, never lowered.
AckClientRaise(cn, indicator) ==
    LET client == cn.clients[indicator.src]
    IN  IF Gt32(Add32(indicator.seq, 1), client.ack)
        THEN [client EXCEPT !.ack = Add32(indicator.seq, 1)] ELSE client

\* handshakeACK for a received SYN+ACK from a known client.
AckClient(cn, indicator) ==
    [cn.clients[indicator.src] EXCEPT !.ack = Add32(indicator.seq, 1)]

handshakeACKFrame(c, cn, indicator) ==
    HandshakeFrame(c, cn, indicator.src, indicator.dst[2], AckClient(cn, indicator),
                   FALSE, TRUE)

handshakeACK(cn, indicator, ok) ==
    [cn EXCEPT !.clients = MapPut(@, indicator.src, AckClient(cn, indicator)),
               !.id = IF ok THEN IdInc(@) ELSE @]

\* ------------------------------------------------------------ Dial, Accept

\* The bytes Crypt.Encrypt adds to a payload: none, or CryptPad.
CryptPad == 1

\* The timeout Dial is given: none, or this many seconds.
DialTimeout == 1

\* Listen: the Listener's capture queue q and clients; opens counts its
\* dialPassive calls, synacks the SYN+ACKs Accept has sent, accepts lists what
\* the Accept calls returned.
NewListener(closed) ==
    [q |-> << >>, clients |-> {}, closed |-> closed, opens |-> 0, synacks |-> 0,
     accepts |-> << >>]

Init ==
    /\ fragment = 0
    /\ networkLayerPayload = << >>
    /\ fi = 0
    /\ fragments = << >>
    /\ fpc = "idle"
    /\ defragFrags = << >>
    /\ defragDeadline = 0
    /\ fed = {}
    /\ appendOut = << >>
    /\ now = 1
    /\ conn = [c \in ConnIds |-> NoConn]
    /\ listener = NewListener(TRUE)
    /\ wire = << >>
    /\ \E pad \in {0, CryptPad} :
          env = [fails |-> 0, calls |-> 0, dialed |-> FALSE, pad |-> pad]

\* Dial: dialPassive, handshakeSYN, and the reconnect goroutine when timeout > 0.
\* When the SYN cannot be written Dial returns no Conn.
Dial(timeout, ok) ==
    /\ ~env.dialed
    /\ LET cn0 == [NewConn(CliPort, SrvAddr) EXCEPT !.timeout = timeout]
           cn1 == [handshakeSYN(cn0, ok) EXCEPT !.rc = IF timeout > 0 THEN "sleep" ELSE "off"]
       IN  Send(IF ok THEN [conn EXCEPT !["cli"] = cn1] ELSE conn, listener,
                [env EXCEPT !.dialed = TRUE], "cli", cn0, handshakeSYNFrame("cli", cn0), ok)
    /\ UNCHANGED <<fragVars, now>>

\* Listener.Accept: one captured packet; a known source is a duplicate
\* (nil, nil); else dialPassive, the client record, handshakeSYNACK, and the
\* source is mapped once the SYN+ACK is written.
AcceptDuplicate ==
    /\ listener.q # << >>
    /\ ParsePacket(Head(listener.q)) # Nil
    /\ ParsePacket(Head(listener.q)).src \in listener.clients
    /\ listener' = [listener EXCEPT !.q = Tail(@), !.accepts = Append(@, "duplicate")]
    /\ UNCHANGED <<fragVars, now, conn, wire, env>>

\* The source is not recorded.
AcceptMapNone(clients, src) == clients

\* "Map client": l.clients[indicator.Src().String()] = conn.
AcceptMap(clients, src) == clients \cup {src}

AcceptNew(ok) ==
    /\ listener.q # << >>
    /\ LET indicator == ParsePacket(Head(listener.q))
           cn0 == [NewConn(SrvPort, indicator.src) EXCEPT
                      !.clients = MapPut(@, indicator.src, ClientIndicator(Mk32(0), Mk32(0)))]
           cn1 == handshakeSYNACK(cn0, indicator, ok)
       IN  /\ indicator # Nil
           /\ indicator.src \notin listener.clients
           /\ Send(IF ok THEN [conn EXCEPT !["srv"] = cn1] ELSE conn,
                   [listener EXCEPT !.q = Tail(@),
                                    !.opens = @ + 1,
                                    !.synacks = IF ok THEN @ + 1 ELSE @,
                                    !.clients = IF ok THEN AcceptMap(@, indicator.src) ELSE @,
                                    !.accepts = Append(@, IF ok THEN "conn" ELSE "error")],
                   env, "srv", cn0, handshakeSYNACKFrame("srv", cn0, indicator), ok)
    /\ UNCHANGED <<fragVars, now>>

\* ------------------------------------------------------------------ ReadFrom

\* keepFragments, in seconds.
keepFragments == 30


\* What a ReadFrom call returned: n, the error ("" for nil), and whether the
\* read deadline was a non-zero instant in the past when it was called.
ReadResult(n, err, past) == [n |-> n, err |-> err, past |-> past]

\* ReadFrom calls readPacketFrom: a channel, the reader goroutine, and the
\* timer goroutine when the read deadline is not zero.
ReadStart(c) ==
    /\ env.calls < MaxCalls
    /\ IsOpen(c)
    /\ conn[c].rd.pc = "idle"
    /\ conn' = [conn EXCEPT
          ![c].rd = [pc |-> "wait", timer |-> conn[c].readDeadline,
                     past |-> conn[c].readDeadline # 0 /\ conn[c].readDeadline < now],
          ![c].readers = Append(@, [pc |-> "run"])]
    /\ env' = Called(env)
    /\ UNCHANGED <<fragVars, now, listener, wire>>

\* The reader goroutine's ReadPacket on a closed handle.
ReaderClosed(c, k) ==
    /\ IsOpen(c)
    /\ k \in DOMAIN conn[c].readers
    /\ conn[c].readers[k].pc = "run"
    /\ conn[c].rawCloses > 0
    /\ conn' = [conn EXCEPT ![c].readers[k] = [pc |-> "send", err |-> "read"]]
    /\ UNCHANGED <<fragVars, now, listener, wire, env>>

\* One turn of the reader goroutine's loop: ReadPacket, ParsePacket,
\* defrag.Append; it loops on while Append returns no packet.
ReaderOutcome(cn, f, t) ==
    IF ~IsFrag(f) /\ ParsePacket(f) = Nil THEN [defrag |-> cn.defrag, pc |-> "send", err |-> "parse"]
    ELSE LET r == AppendOriginal(cn.defrag, keepFragments, f, t)
         IN  IF r.out = Nil THEN [defrag |-> r.frags, pc |-> "run"]
             ELSE IF ParsePacket(r.out) = Nil
                  THEN [defrag |-> r.frags, pc |-> "send", err |-> "defrag"]
                  ELSE [defrag |-> r.frags, pc |-> "send", err |-> "", packet |-> r.out]

ReaderStep(c, k) ==
    /\ IsOpen(c)
    /\ k \in DOMAIN conn[c].readers
    /\ conn[c].readers[k].pc = "run"
    /\ conn[c].rawCloses = 0
    /\ conn[c].rawq # << >>
    /\ LET o == ReaderOutcome(conn[c], Head(conn[c].rawq), now)
       IN  conn' = [conn EXCEPT
              ![c].rawq = Tail(@),
              ![c].defrag = o.defrag,
              ![c].readers[k] = IF o.pc = "run" THEN [pc |-> "run"]
                                ELSE IF o.err # "" THEN [pc |-> "send", err |-> o.err]
                                ELSE [pc |-> "send", err |-> "", packet |-> o.packet]]
    /\ UNCHANGED <<fragVars, now, listener, wire, env>>

\* client.ack raised only when the expected ack is greater.
AckUpdateNoWrap(ack, seq, n) ==
    IF Gt32(Add32(seq, n), ack) THEN Add32(seq, n) ELSE ack

\* "TCP Ack, always use the expected one": client.ack after a data packet
\* with Seq seq and n payload bytes.

AckUpdate(ack, seq, n) ==
    LET expectedAck == Add32(seq, n)
    IN  IF Gt32(expectedAck, ack) \/ Lt32(Neg32(seq), Mk32(n)) THEN expectedAck ELSE ack

\* Crypt.Decrypt: the payload without what Encrypt added; it fails on less.
DecryptLen(n) == n - env.pad

\* ReadFrom taking every source for a client.
ReadDataTrusting(cn, indicator, past) ==
    IF indicator.app = << >> THEN [cn EXCEPT !.lastRead = ReadResult(0, "", past)]
    ELSE LET old == Client(cn, indicator.src)
             new == [old EXCEPT !.ack = Add32(indicator.seq, Len(indicator.app))]
         IN  [cn EXCEPT !.clients = MapPut(@, indicator.src, new),
                        !.lastRead = ReadResult(Len(indicator.app), "", past)]

\* ReadFrom after readPacketFrom returned a packet that is not a SYN.
ReadData(cn, indicator, past) ==
    IF indicator.app = << >> THEN [cn EXCEPT !.lastRead = ReadResult(0, "", past)]
    ELSE IF indicator.src \notin DOMAIN cn.clients
         THEN [cn EXCEPT !.lastRead = ReadResult(0, "unauthorized", past)]
    ELSE LET old == cn.clients[indicator.src].ack
             new == AckUpdate(old, indicator.seq, Len(indicator.app))
             cn1 == [cn EXCEPT !.clients[indicator.src].ack = new,
                               !.lastAck = [seq |-> indicator.seq, n |-> Len(indicator.app),
                                            old |-> old, new |-> new]]
         IN  IF DecryptLen(Len(indicator.app)) < 0
             THEN [cn1 EXCEPT !.lastRead = ReadResult(0, "decrypt", past)]
             ELSE [cn1 EXCEPT !.lastRead = ReadResult(DecryptLen(Len(indicator.app)), "", past)]

\* The reader goroutine hands its outcome to the ReadFrom call that started
\* it, if that call still waits.  An error is returned; the type assertion
\* TransportLayer().(*layers.TCP) panics on a UDP packet; a SYN goes on to the
\* handshake (isConnected and isReconnected are set before it); anything else
\* is read as data.
ReaderSend(c, k) ==
    /\ IsOpen(c)
    /\ k = Len(conn[c].readers)
    /\ k > 0
    /\ conn[c].readers[k].pc = "send"
    /\ conn[c].rd.pc = "wait"
    /\ LET cn == [conn[c] EXCEPT !.readers[k] = [pc |-> "exit"]]
           rr == conn[c].readers[k]
           indicator == ParsePacket(rr.packet)
       IN  conn' = [conn EXCEPT ![c] =
              IF rr.err # ""
              THEN [cn EXCEPT !.rd = NoCall, !.lastRead = ReadResult(0, rr.err, cn.rd.past)]
              ELSE IF indicator.proto # "tcp"
              THEN [cn EXCEPT !.rd = [pc |-> "panic"]]
              ELSE IF indicator.syn
              THEN [cn EXCEPT !.rd = [pc |-> "handshake", indicator |-> indicator,
                                      past |-> cn.rd.past],
                              !.isConnected = IF indicator.ackf THEN TRUE ELSE @,
                              !.isReconnected = IF indicator.ackf THEN TRUE ELSE @]
              ELSE [ReadData(cn, indicator, cn.rd.past) EXCEPT !.rd = NoCall]]
    /\ UNCHANGED <<fragVars, now, listener, wire, env>>

\* ReadFrom's handshake reply to a SYN+ACK from a source without a client:
\* handshakeACK writes nothing and ReadFrom returns its error.  (Only a packet
\* put together from fragments can come from another source than dstAddr.)
ReadHandshakeUnknown(c) ==
    /\ IsOpen(c)
    /\ conn[c].rd.pc = "handshake"
    /\ ~conn[c].lock
    /\ conn[c].rd.indicator.ackf
    /\ conn[c].rd.indicator.src \notin DOMAIN conn[c].clients
    /\ conn' = [conn EXCEPT ![c].rd = NoCall,
                            ![c].lastRead = ReadResult(0, "handshake", conn[c].rd.past)]
    /\ UNCHANGED <<fragVars, now, listener, wire, env>>

\* ReadFrom's handshake reply under c.lock: handshakeACK to a SYN+ACK,
\* handshakeSYNACK to a SYN; ReadFrom returns (0, a, nil) or the write's error.
ReadHandshake(c, ok) ==
    /\ IsOpen(c)
    /\ conn[c].rd.pc = "handshake"
    /\ ~conn[c].lock
    /\ LET indicator == conn[c].rd.indicator
           cn == [conn[c] EXCEPT !.rd = NoCall,
                                 !.lastRead = ReadResult(0, IF ok THEN "" ELSE "handshake",
                                                         conn[c].rd.past)]
       IN  IF indicator.ackf
           THEN /\ indicator.src \in DOMAIN cn.clients
                /\ Send([conn EXCEPT ![c] = handshakeACK(cn, indicator, ok)], listener, env,
                        c, cn, handshakeACKFrame(c, cn, indicator), ok)
           ELSE Send([conn EXCEPT ![c] = handshakeSYNACK(cn, indicator, ok)], listener, env,
                     c, cn, handshakeSYNACKFrame(c, cn, indicator), ok)
    /\ UNCHANGED <<fragVars, now>>

\* The timer goroutine of the waiting ReadFrom call: it sleeps until the read
\* deadline and hands over the timeout error.
ReadTimeout(c) ==
    /\ IsOpen(c)
    /\ conn[c].rd.pc = "wait"
    /\ conn[c].rd.timer # 0
    /\ now >= conn[c].rd.timer
    /\ conn' = [conn EXCEPT ![c].rd = NoCall,
                            ![c].lastRead = ReadResult(0, "timeout", conn[c].rd.past)]
    /\ UNCHANGED <<fragVars, now, listener, wire, env>>

\* ------------------------------------------------------------------- WriteTo

\* WriteTo is called with a payload of SmallLen or LargeLen bytes.
SmallLen == 1
LargeLen == 5

\* An address no Conn has a client for.
OtherAddr == Addr("x", 3)

\* Crypt.Encrypt: the payload and what the crypt adds to it.
EncryptLen(n) == n + env.pad

Contents(n) == [k \in 1..n |-> 0]

\* CreateFragmentPackets as a whole, from offset i on: head is the frame's
\* IPv4 header, payload the bytes behind it, max the room in a frame.
RECURSIVE FragmentsFrom(_, _, _, _)
FragmentsFrom(i, head, payload, max) ==
    IF i >= Len(payload) THEN << >>
    ELSE LET it == Iteration(i, Len(payload), max)
         IN  <<[head EXCEPT !.off = U16(GoDiv(i, 8)), !.mf = it.remain > 0,
                            !.body = SubSeq(payload, i + 1, i + it.length)]>>
             \o FragmentsFrom(i + it.length, head, payload, max)

CreateFragmentPackets(head, payload, mtu) ==
    IF NetHdrLen + Len(payload) > mtu
    THEN FragmentsFrom(0, head, payload, mtu - NetHdrLen)
    ELSE <<[head EXCEPT !.body = payload]>>

\* The write timer sleeps until this instant (WriteTo reads c.readDeadline).
WriteTimerDeadline(cn) == cn.readDeadline

\* WriteTo(p, addr) with n bytes, to the Conn's remote address (Write) or to
\* OtherAddr: a channel, the writer goroutine, and the timer goroutine when
\* the write deadline is not zero (deadline notes c.writeDeadline as the call
\* found it).
WriteStart(c, n, toPeer) ==
    /\ env.calls < MaxCalls
    /\ IsOpen(c)
    /\ conn[c].wr.pc = "idle"
    /\ LET addr == IF toPeer THEN conn[c].dstAddr ELSE OtherAddr IN
       conn' = [conn EXCEPT
          ![c].wr = [pc |-> "wait", n |-> n, armed |-> conn[c].writeDeadline # 0,
                     timer |-> WriteTimerDeadline(conn[c]),
                     deadline |-> conn[c].writeDeadline,
                     known |-> addr \in DOMAIN conn[c].clients],
          ![c].writers = Append(@, [pc |-> "lock", n |-> n, addr |-> addr,
                                    known |-> addr \in DOMAIN conn[c].clients,
                                    wrote |-> 0, advanced |-> FALSE])]
    /\ env' = Called(env)
    /\ UNCHANGED <<fragVars, now, listener, wire>>

\* The writer goroutine takes c.lock and looks the client up; for a known
\* client it builds the layers from client.seq, client.ack and c.id, encrypts
\* and fragments.  (seq and at note the Seq it built in and the number of
\* frames on the wire when it took the lock.)
WriterLock(c, k) ==
    /\ IsOpen(c)
    /\ k \in DOMAIN conn[c].writers
    /\ conn[c].writers[k].pc = "lock"
    /\ ~conn[c].lock
    /\ LET w == conn[c].writers[k]
           cn == conn[c]
           client == cn.clients[w.addr]
           head == Frame(cn.id, LocalIP(c), w.addr[1], 0, FALSE, << >>)
           payload == TcpHeader(cn.srcPort, w.addr[2], client.seq, client.ack, FALSE, TRUE)
                      \o Contents(EncryptLen(w.n))
       IN  conn' = [conn EXCEPT
              ![c].lock = TRUE,
              ![c].writers[k] =
                 IF w.addr \notin DOMAIN cn.clients
                 THEN [w EXCEPT !.pc = "send"] @@ [err |-> "unrecognized"]
                 ELSE [w EXCEPT !.pc = "write"] @@
                      [todo |-> CreateFragmentPackets(head, payload, ConnMTU),
                       contents |-> EncryptLen(w.n), seq |-> client.seq,
                       at |-> Len(wire)]]
    /\ UNCHANGED <<fragVars, now, listener, wire, env>>

\* client.seq left as it is after a write.
SeqAdvanceNone(seq, contents) == seq

\* "TCP Seq": client.seq = client.seq + uint32(len(contents)).
SeqAdvance(seq, contents) == Add32(seq, contents)

\* c.id advanced by the number of frames of a write.
IdAfterWritePerFrame(id, frames) == U16(id + frames)

\* "IPv4 Id": c.id++ after the frames of one write.
IdAfterWrite(id, frames) == IdInc(id)

\* The writer goroutine writes its next frame; after the last one it advances
\* client.seq and c.id; a failed write ends it with the error.
WriterWrite(c, k, ok) ==
    /\ IsOpen(c)
    /\ k \in DOMAIN conn[c].writers
    /\ conn[c].writers[k].pc = "write"
    /\ LET w == conn[c].writers[k]
           cn == conn[c]
           last == Len(w.todo) = 1
           w1 == IF ~ok THEN [pc |-> "send", n |-> w.n, addr |-> w.addr, known |-> w.known,
                              wrote |-> w.wrote, advanced |-> FALSE, err |-> "write",
                              seq |-> w.seq, at |-> w.at]
                 ELSE IF last
                 THEN [pc |-> "send", n |-> w.n, addr |-> w.addr, known |-> w.known,
                       wrote |-> w.wrote + 1, advanced |-> TRUE, err |-> "", seq |-> w.seq,
                       at |-> w.at]
                 ELSE [w EXCEPT !.todo = Tail(@), !.wrote = @ + 1]
           cn1 == IF ok /\ last
                  THEN [cn EXCEPT !.clients[w.addr].seq = SeqAdvance(@, w.contents),
                                  !.id = IdAfterWrite(@, w.wrote + 1),
                                  !.writers[k] = w1]
                  ELSE [cn EXCEPT !.writers[k] = w1]
       IN  Send([conn EXCEPT ![c] = cn1], listener, env, c, cn, Head(w.todo), ok)
    /\ UNCHANGED <<fragVars, now>>

\* What a WriteTo call returned: n, the error, whether the address had a
\* client when it was called and whether the write deadline was set then.
WriteResult(n, err, known, armed) == [n |-> n, err |-> err, known |-> known, armed |-> armed]

\* len(p) returned whatever the writer goroutine handed over.
WriteCountAll(n, err) == n

\* "return 0, err" on an error, "return len(p), nil" else.
WriteCount(n, err) == IF err = "" THEN n ELSE 0

\* The writer goroutine hands its outcome to the WriteTo call that started it,
\* if that call still waits, returns, and the deferred Unlock runs.
WriterSend(c, k) ==
    /\ IsOpen(c)
    /\ k = Len(conn[c].writers)
    /\ k > 0
    /\ conn[c].writers[k].pc = "send"
    /\ conn[c].wr.pc = "wait"
    /\ LET w == conn[c].writers[k]
       IN  conn' = [conn EXCEPT
              ![c].lock = FALSE,
              ![c].wr = NoCall,
              ![c].lastWrite = WriteResult(WriteCount(w.n, w.err), w.err, w.known,
                                           conn[c].wr.armed),
              ![c].writers[k] = [w EXCEPT !.pc = "exit"]]
    /\ UNCHANGED <<fragVars, now, listener, wire, env>>

\* The timer goroutine of the waiting WriteTo call hands over the timeout error.
WriteTimeout(c) ==
    /\ IsOpen(c)
    /\ conn[c].wr.pc = "wait"
    /\ conn[c].wr.armed
    /\ now >= conn[c].wr.timer
    /\ conn' = [conn EXCEPT ![c].wr = NoCall,
                            ![c].lastWrite = WriteResult(WriteCount(conn[c].wr.n, "timeout"), "timeout",
                                                         conn[c].wr.known, TRUE)]
    /\ UNCHANGED <<fragVars, now, listener, wire, env>>

\* ------------------------------------------------- Close, deadlines, timers


\* c.conn.Close() is called once more than before.
RawCloseCalls(cn) == cn.rawCloses + 1

Close(c) ==
    /\ env.calls < MaxCalls
    /\ IsOpen(c)
    /\ conn' = [conn EXCEPT ![c].isClosed = TRUE,
                            ![c].rawCloses = RawCloseCalls(conn[c]),
                            ![c].rawq = << >>]
    /\ env' = Called(env)
    /\ UNCHANGED <<fragVars, now, listener, wire>>

\* The instant deadlines are set to, besides the zero time.
DeadlineAt == 2

SetReadDeadline(c, t) ==
    /\ env.calls < MaxCalls
    /\ IsOpen(c)
    /\ conn[c].readDeadline # t
    /\ conn' = [conn EXCEPT ![c].readDeadline = t]
    /\ env' = Called(env)
    /\ UNCHANGED <<fragVars, now, listener, wire>>

SetWriteDeadline(c, t) ==
    /\ env.calls < MaxCalls
    /\ IsOpen(c)
    /\ conn[c].writeDeadline # t
    /\ conn' = [conn EXCEPT ![c].writeDeadline = t]
    /\ env' = Called(env)
    /\ UNCHANGED <<fragVars, now, listener, wire>>

\* SetDeadline called by one goroutine with no other setter running:
\* SetReadDeadline, then SetWriteDeadline (neither fails), as one step.
SetDeadline(c, t) ==
    /\ env.calls < MaxCalls
    /\ IsOpen(c)
    /\ conn[c].readDeadline # t \/ conn[c].writeDeadline # t
    /\ conn' = [conn EXCEPT ![c].readDeadline = t, ![c].writeDeadline = t]
    /\ env' = Called(env)
    /\ UNCHANGED <<fragVars, now, listener, wire>>

\* SetDeadline step by step, as goroutine k of the application runs it: it
\* reads c.readDeadline for the rollback and assigns c.readDeadline, ...
SetDeadlineRead(c, k, t) ==
    /\ env.calls < MaxCalls
    /\ IsOpen(c)
    /\ conn[c].sd[k].pc = "idle"
    /\ conn' = [conn EXCEPT ![c].readDeadline = t,
                            ![c].sd[k] = [pc |-> "write", t |-> t,
                                          readDeadline |-> conn[c].readDeadline]]
    /\ env' = Called(env)
    /\ UNCHANGED <<fragVars, now, listener, wire>>

\* ... and assigns c.writeDeadline and returns nil (SetWriteDeadline returns
\* no error, so the rollback never runs).
SetDeadlineWrite(c, k) ==
    /\ IsOpen(c)
    /\ conn[c].sd[k].pc = "write"
    /\ conn' = [conn EXCEPT ![c].writeDeadline = conn[c].sd[k].t,
                            ![c].sd[k] = NoCall]
    /\ UNCHANGED <<fragVars, now, listener, wire, env>>

\* The reconnect goroutine runs at most MaxReconnect cycles.
MaxReconnect == 1

\* The reconnect goroutine wakes from its sleep: if the Conn is not closed it
\* clears isReconnected and goes on to handshakeSYN.
ReconnectWake(c) ==
    /\ IsOpen(c)
    /\ conn[c].rc = "sleep"
    /\ conn[c].cycles < MaxReconnect
    /\ ~conn[c].isClosed
    /\ conn' = [conn EXCEPT ![c].isReconnected = FALSE, ![c].rc = "syn"]
    /\ UNCHANGED <<fragVars, now, listener, wire, env>>

\* The reconnect goroutine's handshakeSYN under c.lock; a failure is logged.
ReconnectSYN(c, ok) ==
    /\ IsOpen(c)
    /\ conn[c].rc = "syn"
    /\ ~conn[c].lock
    /\ LET cn == [conn[c] EXCEPT !.rc = "sleep", !.cycles = @ + 1]
       IN  Send([conn EXCEPT ![c] = handshakeSYN(cn, ok)], listener, env, c, cn,
                handshakeSYNFrame(c, cn), ok)
    /\ UNCHANGED <<fragVars, now>>

\* ------------------------------------------------------------ surroundings


\* The Seq values of forged frames: a small one and 2^32 - 2.
ForgedSeq == Mk32(5)
ForgedSeqWrap == [hi |-> 65535, lo |-> 65534]
ForgedLen == 3

\* Bytes of a TCP packet cut off behind its ports.
TruncatedLen == 4

\* Frames a host on the network can send Conn c under its peer's address: a
\* SYN (to the client: a SYN+ACK), data, and a TCP packet cut off inside its
\* header, which passes the filter and does not parse.
ForgedFrames(c) ==
    LET cn == conn[c]
        tcp(seq, syn, ackf) == TcpHeader(cn.dstAddr[2], cn.srcPort, seq, Mk32(0), syn, ackf)
        ip(body) == Frame(0, cn.dstAddr[1], LocalIP(c), 0, FALSE, body)
    IN  IF ~cn.open THEN {}
        ELSE {ip(tcp(ForgedSeqWrap, TRUE, c = "cli")),
              ip(tcp(ForgedSeq, FALSE, TRUE) \o Contents(ForgedLen)),
              ip(tcp(ForgedSeqWrap, FALSE, TRUE) \o Contents(ForgedLen)),
              ip(SubSeq(tcp(ForgedSeq, FALSE, TRUE), 1, TruncatedLen))}

Forge(c, f) ==
    /\ IsOpen(c)
    /\ env.calls < MaxCalls
    /\ Captures(conn[c], c, f)
    /\ conn' = [conn EXCEPT ![c].rawq = Append(@, f)]
    /\ env' = Called(env)
    /\ UNCHANGED <<fragVars, now, listener, wire>>

\* ---------------------------------------------------------------------- Spec

\* The steps of Conn c and its goroutines.
ConnNext(c) ==
    \/ ReadStart(c)
    \/ \E k \in 1..MaxCalls : ReaderClosed(c, k) \/ ReaderStep(c, k) \/ ReaderSend(c, k)
    \/ \E ok \in BOOLEAN : ReadHandshake(c, ok)
    \/ ReadTimeout(c)
    \/ \E n \in {SmallLen, LargeLen} : WriteStart(c, n, TRUE)
    \/ WriteStart(c, SmallLen, FALSE)
    \/ \E k \in 1..MaxCalls : WriterLock(c, k) \/ WriterSend(c, k)
    \/ \E k \in 1..MaxCalls : \E ok \in BOOLEAN : WriterWrite(c, k, ok)
    \/ WriteTimeout(c)
    \/ Close(c)
    \/ \E t \in {0, DeadlineAt} :
          SetReadDeadline(c, t) \/ SetWriteDeadline(c, t) \/ SetDeadline(c, t)
    \/ ReconnectWake(c)
    \/ \E ok \in BOOLEAN : ReconnectSYN(c, ok)
    \/ \E f \in ForgedFrames(c) : Forge(c, f)

\* Spec: a client Conn in full, with every frame it captures forged by the
\* network (no Listener answers).
Next ==
    \/ \E t \in {0, DialTimeout} : \E ok \in BOOLEAN : Dial(t, ok)
    \/ ConnNext("cli")
    \/ Tick

Spec == Init /\ [][Next]_vars

\* What a host at the peer's IP can make the Conn's capture put together: the
\* filter passes every later fragment from that IP, so a last fragment at
\* offset 1 (8 bytes in) that holds a transport header and a fragment of 8
\* bytes "before" it at offset 2 are complete for the easy defragmenter
\* (length / 8 = 1 = offset) and concatenate to a packet that never had a
\* first fragment: TCP data, a SYN or a SYN+ACK from a port without a client,
\* or a UDP packet.
CapturedFrames(c) ==
    LET cn == conn[c]
        other == OtherAddr[2]
        tcp(sport, syn, ackf) == TcpHeader(sport, cn.srcPort, ForgedSeq, Mk32(0), syn, ackf)
        last(body) == Frame(0, cn.dstAddr[1], LocalIP(c), 1, FALSE, body)
    IN  IF ~cn.open THEN {}
        ELSE {Frame(0, cn.dstAddr[1], LocalIP(c), 2, TRUE, Contents(8)),
              last(tcp(other, FALSE, TRUE)),
              last(tcp(other, TRUE, FALSE)),
              last(tcp(other, TRUE, TRUE)),
              last(tcp(cn.dstAddr[2], FALSE, TRUE)),
              [last(<<cn.dstAddr[2], cn.srcPort>> \o Contents(UdpHdrLen - 2))
                  EXCEPT !.proto = "udp"]}

\* SpecCapture: a client Conn and its ReadFrom calls, fed with fragments by a
\* host at the peer's IP.
NextCapture ==
    \/ \E ok \in BOOLEAN : Dial(0, ok)
    \/ ReadStart("cli")
    \/ \E k \in 1..MaxCalls : ReaderStep("cli", k) \/ ReaderSend("cli", k)
    \/ ReadHandshakeUnknown("cli")
    \/ \E ok \in BOOLEAN : ReadHandshake("cli", ok)
    \/ \E f \in CapturedFrames("cli") : Forge("cli", f)

SpecCapture == Init /\ [][NextCapture]_vars

\* SpecListen: a Listener and the client that dials it, with the Conn Accept
\* returns; both sides read and write, the client's reconnect goroutine
\* repeats its SYN.  No deadlines, no Close, nothing forged.
InitListen ==
    /\ fragment = 0
    /\ networkLayerPayload = << >>
    /\ fi = 0
    /\ fragments = << >>
    /\ fpc = "idle"
    /\ defragFrags = << >>
    /\ defragDeadline = 0
    /\ fed = {}
    /\ appendOut = << >>
    /\ now = 1
    /\ conn = [c \in ConnIds |-> NoConn]
    /\ listener = NewListener(FALSE)
    /\ wire = << >>
    /\ \E pad \in {0, CryptPad} :
          env = [fails |-> 0, calls |-> 0, dialed |-> FALSE, pad |-> pad]

NextListen ==
    \/ \E t \in {0, DialTimeout} : \E ok \in BOOLEAN : Dial(t, ok)
    \/ AcceptDuplicate
    \/ \E ok \in BOOLEAN : AcceptNew(ok)
    \/ \E c \in ConnIds : ReadStart(c)
    \/ \E c \in ConnIds : \E k \in 1..MaxCalls : ReaderStep(c, k) \/ ReaderSend(c, k)
    \/ \E c \in ConnIds : \E ok \in BOOLEAN : ReadHandshake(c, ok)
    \/ \E c \in ConnIds : WriteStart(c, SmallLen, TRUE)
    \/ \E c \in ConnIds : \E k \in 1..MaxCalls : WriterLock(c, k) \/ WriterSend(c, k)
    \/ \E c \in ConnIds : \E k \in 1..MaxCalls : \E ok \in BOOLEAN : WriterWrite(c, k, ok)
    \/ ReconnectWake("cli")
    \/ \E ok \in BOOLEAN : ReconnectSYN("cli", ok)

SpecListen == InitListen /\ [][NextListen]_vars

\* SpecDeadline: a client Conn whose application calls SetDeadline from two
\* goroutines and WriteTo from a third; no lock orders the assignments.
NextDeadline ==
    \/ \E ok \in BOOLEAN : Dial(0, ok)
    \/ \E k \in Callers : \E t \in {0, DeadlineAt} : SetDeadlineRead("cli", k, t)
    \/ \E k \in Callers : SetDeadlineWrite("cli", k)
    \/ WriteStart("cli", SmallLen, TRUE)
    \/ \E k \in 1..MaxCalls : WriterLock("cli", k) \/ WriterSend("cli", k)
    \/ \E k \in 1..MaxCalls : \E ok \in BOOLEAN : WriterWrite("cli", k, ok)
    \/ WriteTimeout("cli")
    \/ Tick

SpecDeadline == Init /\ [][NextDeadline]_vars

\* SpecRace: a client Conn whose ReadFrom and WriteTo calls race their I/O
\* goroutines against the deadline timers.  The Go scheduler runs every
\* goroutine that can take a step, and a raw read returns once a frame is in
\* the capture queue: each step of a reader, writer or timer goroutine is
\* weakly fair.
NextRace ==
    \/ \E ok \in BOOLEAN : Dial(0, ok)
    \/ \E t \in {0, DeadlineAt} : SetDeadline("cli", t)
    \/ ReadStart("cli")
    \/ \E k \in 1..MaxCalls : ReaderStep("cli", k) \/ ReaderSend("cli", k)
    \/ \E ok \in BOOLEAN : ReadHandshake("cli", ok)
    \/ ReadTimeout("cli")
    \/ WriteStart("cli", SmallLen, TRUE)
    \/ \E k \in 1..MaxCalls : WriterLock("cli", k) \/ WriterSend("cli", k)
    \/ \E k \in 1..MaxCalls : \E ok \in BOOLEAN : WriterWrite("cli", k, ok)
    \/ WriteTimeout("cli")
    \/ \E f \in ForgedFrames("cli") : Forge("cli", f)
    \/ Tick

Scheduling ==
    /\ \A k \in 1..MaxCalls :
          /\ WF_vars(ReaderStep("cli", k))
          /\ WF_vars(ReaderSend("cli", k))
          /\ WF_vars(WriterLock("cli", k))
          /\ WF_vars(\E ok \in BOOLEAN : WriterWrite("cli", k, ok))
          /\ WF_vars(WriterSend("cli", k))
    /\ WF_vars(\E ok \in BOOLEAN : ReadHandshake("cli", ok))
    /\ WF_vars(ReadTimeout("cli"))
    /\ WF_vars(WriteTimeout("cli"))
    /\ WF_vars(Tick)

SpecRace == Init /\ [][NextRace]_vars /\ Scheduling

\* What the peer of Conn c can send it: the forged frames and a SYN (to the
\* client: a SYN+ACK) with a small Seq, as of a peer that has started anew.
PeerFrames(c) ==
    LET cn == conn[c]
    IN  IF ~cn.open THEN {}
        ELSE ForgedFrames(c) \cup
             {Frame(0, cn.dstAddr[1], LocalIP(c), 0, FALSE,
                    TcpHeader(cn.dstAddr[2], cn.srcPort, ForgedSeq, Mk32(0), TRUE, c = "cli"))}

\* SpecPeer: the peer state of a client Conn over handshakes, reads, writes
\* and reconnects; no deadlines, no Close.
NextPeer ==
    \/ \E t \in {0, DialTimeout} : \E ok \in BOOLEAN : Dial(t, ok)
    \/ ReadStart("cli")
    \/ \E k \in 1..MaxCalls : ReaderStep("cli", k) \/ ReaderSend("cli", k)
    \/ \E ok \in BOOLEAN : ReadHandshake("cli", ok)
    \/ WriteStart("cli", SmallLen, TRUE)
    \/ \E k \in 1..MaxCalls : WriterLock("cli", k) \/ WriterSend("cli", k)
    \/ \E k \in 1..MaxCalls : \E ok \in BOOLEAN : WriterWrite("cli", k, ok)
    \/ ReconnectWake("cli")
    \/ \E ok \in BOOLEAN : ReconnectSYN("cli", ok)
    \/ \E f \in PeerFrames("cli") : Forge("cli", f)

SpecPeer == Init /\ [][NextPeer]_vars

\* ------------------------------------------------------------------ claims

RECURSIVE SumBodies(_)
SumBodies(s) == IF s = <<>> THEN 0 ELSE Len(Head(s).body) + SumBodies(Tail(s))

\* C1: for every payload and every MTU >= header size + 8, CreateFragmentPackets
\* returns frames (every iteration emits a non-empty body, so the loop ends, and
\* no slice panics); appended one by one in any order, each exactly once, to an
\* EasyDefragmenter that evicts nothing, every call but the last returns nothing
\* and the last returns one packet whose network payload is the original
\* transport header plus payload.
C1_FragmentRoundTrip ==
    (fragment >= NetHdrLen + 8 /\ defragDeadline = 0) =>
        /\ fpc # "panic"
        /\ \A k \in DOMAIN fragments : Len(fragments[k].body) > 0
        /\ \A j \in DOMAIN appendOut : j < Len(fragments) => appendOut[j] = Nil
        /\ (fpc = "returned" /\ fed = DOMAIN fragments) =>
              /\ Len(appendOut) = Len(fragments)
              /\ appendOut[Len(appendOut)] # Nil
              /\ appendOut[Len(appendOut)].body = networkLayerPayload

\* C2: in a returned output of two or more fragments every non-final fragment
\* has MF set and a body length divisible by 8, the final fragment has MF clear
\* and a body of at least 8 bytes, and each fragment's offset times 8 is the
\* sum of the body lengths before it.
C2_FragmentAlignment ==
    (fpc = "returned" /\ Len(fragments) >= 2) =>
        LET n == Len(fragments)
        IN  /\ \A k \in 1..(n - 1) :
                  fragments[k].mf /\ Len(fragments[k].body) % 8 = 0
            /\ ~fragments[n].mf
            /\ Len(fragments[n].body) >= 8
            /\ \A k \in 1..n :
                  fragments[k].off * 8 = SumBodies(SubSeq(fragments, 1, k - 1))

\* A returned output of three or more fragments in which the minimum-tail rule
\* acted: a non-final fragment is shorter than the aligned room.
C2_Witness ==
    /\ fpc = "returned"
    /\ Len(fragments) >= 3
    /\ \E k \in 1..(Len(fragments) - 1) :
          Len(fragments[k].body) < GoDiv(fragment - NetHdrLen, 8) * 8

\* ------------------------------------------------- frames seen on the wire

IsSyn(f) == f.off = 0 /\ Len(f.body) >= TcpHdrLen /\ f.body[7] = 1
HasAck(f) == f.off = 0 /\ Len(f.body) >= TcpHdrLen /\ f.body[8] = 1
FrameSeq(f) == [hi |-> f.body[3], lo |-> f.body[4]]
FrameAck(f) == [hi |-> f.body[5], lo |-> f.body[6]]
IsData(f) == f.off = 0 /\ ~IsSyn(f) /\ Len(f.body) > TcpHdrLen

\* The frames Conn c wrote, in order.
FramesOf(c) == SelectSeq(wire, LAMBDA f : f.src = LocalIP(c))

\* What a written frame adds to the sequence number: a SYN or SYN+ACK one,
\* the last frame of a data packet the packet's bytes behind the TCP header, a
\* frame that more fragments follow nothing.
SeqWeight(f) ==
    IF f.mf THEN 0
    ELSE IF IsSyn(f) THEN 1
    ELSE f.off * 8 + Len(f.body) - TcpHdrLen

RECURSIVE SeqSum(_)
SeqSum(s) == IF s = << >> THEN 0 ELSE SeqWeight(Head(s)) + SeqSum(Tail(s))

\* The frames of s that no fragment follows.
Complete(s) == SelectSeq(s, LAMBDA f : ~f.mf)

\* A WriteTo call that returned len(p) and no error.
Succeeded(w) == w.pc = "exit" /\ w.err = ""

RECURSIVE PlainSum(_)
PlainSum(ws) ==
    IF ws = << >> THEN 0
    ELSE (IF Succeeded(Head(ws)) THEN Head(ws).n ELSE 0) + PlainSum(Tail(ws))

\* C3 as stated: the packet of every successful write carries 1 plus the
\* plaintext lengths of the successful writes before it, whatever happened
\* between them.
C3_SequenceMonotonicity ==
    IsOpen("cli") =>
        \A k \in DOMAIN conn["cli"].writers :
            Succeeded(conn["cli"].writers[k]) =>
                conn["cli"].writers[k].seq =
                    Mk32(1 + PlainSum(SubSeq(conn["cli"].writers, 1, k - 1)))

\* C3, amended: every frame with a TCP header that a Conn wrote carries the
\* number of SYN and SYN+ACK frames the Conn wrote before it plus the
\* ciphertext lengths of the data packets it wrote completely before it, and
\* the client's seq is that sum over all the frames written, whether the
\* WriteTo calls returned success, an error or a timeout.
C3_SequenceNumbers ==
    \A c \in ConnIds :
        IsOpen(c) /\ conn[c].dstAddr \in DOMAIN conn[c].clients =>
            LET fs == FramesOf(c)
            IN  /\ conn[c].clients[conn[c].dstAddr].seq = Mk32(SeqSum(fs))
                /\ \A j \in DOMAIN fs :
                      fs[j].off = 0 => FrameSeq(fs[j]) = Mk32(SeqSum(SubSeq(fs, 1, j - 1)))

\* Two data packets on the wire, the later one with a sequence number that
\* the plaintext lengths alone do not give.
C3_Witness ==
    \E i, j \in DOMAIN wire :
        /\ i < j
        /\ IsData(wire[i])
        /\ IsData(wire[j])
        /\ FrameSeq(wire[j]) # Add32(FrameSeq(wire[i]), SmallLen)
        /\ FrameSeq(wire[j]) # Add32(FrameSeq(wire[i]), LargeLen)

\* client.ack is within n of 2^32 - 1.
NearWrap(ack, n) == ~Gt32(Neg32(ack), Mk32(n))

\* C4 as stated: a data packet read while client.ack is within its length of
\* 2^32 - 1 leaves client.ack at (seq + len) mod 2^32.
C4_WraparoundAck ==
    \A c \in ConnIds :
        IsOpen(c) /\ conn[c].lastAck # Nil =>
            LET a == conn[c].lastAck
            IN  NearWrap(a.old, a.n) => a.new = Add32(a.seq, a.n)

\* C4, amended: the wraparound is that of the packet's own seq + len.  When
\* 2^32 - 1 - seq < len, client.ack becomes (seq + len) mod 2^32, a value
\* below len; otherwise it becomes seq + len if that is greater than
\* client.ack and stays as it is if not, however close to 2^32 - 1 it is.
C4_WraparoundOfSeq ==
    \A c \in ConnIds :
        IsOpen(c) /\ conn[c].lastAck # Nil =>
            LET a == conn[c].lastAck
                wraps == Gt32(Mk32(a.n), Neg32(a.seq))
            IN  /\ wraps => a.new = Add32(a.seq, a.n) /\ Gt32(Mk32(a.n), a.new)
                /\ ~wraps /\ Gt32(Add32(a.seq, a.n), a.old) => a.new = Add32(a.seq, a.n)
                /\ ~wraps /\ ~Gt32(Add32(a.seq, a.n), a.old) => a.new = a.old

\* A data packet whose seq + len wraps was read while client.ack was
\* 2^32 - 1, and client.ack is now the wrapped value.
C4_Witness ==
    /\ IsOpen("cli")
    /\ conn["cli"].lastAck # Nil
    /\ conn["cli"].lastAck.old = Max32
    /\ conn["cli"].lastAck.seq = ForgedSeqWrap
    /\ conn["cli"].lastAck.new = Mk32(ForgedLen - 2)

\* C5 as stated: when no raw write has failed and no write is under way, c.id
\* is the number of frames the Conn has written, mod 2^16.
C5_IdPerFrame ==
    \A c \in ConnIds :
        (/\ IsOpen(c)
         /\ env.fails = 0
         /\ conn[c].rawCloses = 0
         /\ \A k \in DOMAIN conn[c].writers : conn[c].writers[k].pc # "write")
        => conn[c].id = U16(conn[c].sent)

\* C5, amended: c.id is the number of packets the Conn has written completely
\* (handshake packets and data packets whose last fragment was written),
\* mod 2^16; every frame carries the number of packets completed before it,
\* so the fragments of one write share an id and a write that fails part-way
\* leaves c.id as it was.
C5_IdPerPacket ==
    \A c \in ConnIds :
        IsOpen(c) =>
            LET fs == FramesOf(c)
            IN  /\ conn[c].id = U16(Len(Complete(fs)))
                /\ \A j \in DOMAIN fs : fs[j].id = U16(Len(Complete(SubSeq(fs, 1, j - 1))))

\* A fragmented data packet was written completely and another frame after it.
C5_Witness ==
    \E i, j, k \in DOMAIN wire :
        /\ i < j
        /\ j < k
        /\ wire[i].mf
        /\ wire[j].off > 0
        /\ ~wire[j].mf

\* C6: the sources in the Listener's table are those Accept has sent a
\* SYN+ACK; once an Accept has returned a Conn, every later Accept of a SYN
\* from that source returns (nil, nil), and such an Accept opens no raw
\* connection and sends no SYN+ACK (dialPassive and the SYN+ACK are counted
\* only for the Accepts that are not duplicates).
C6_DuplicateSyn ==
    LET acc == listener.accepts
    IN  /\ listener.clients \subseteq {CliAddr}
        /\ CliAddr \in listener.clients <=> listener.synacks > 0
        /\ \A i, j \in DOMAIN acc : i < j /\ acc[i] = "conn" => acc[j] = "duplicate"
        /\ listener.opens = Len(SelectSeq(acc, LAMBDA r : r # "duplicate"))
        /\ listener.synacks = Len(SelectSeq(acc, LAMBDA r : r = "conn"))

\* An Accept returned a Conn and a later one met a SYN from the same source.
C6_Witness ==
    \E i, j \in DOMAIN listener.accepts :
        i < j /\ listener.accepts[i] = "conn" /\ listener.accepts[j] = "duplicate"

HandshakeShape ==
    <<[syn |-> TRUE,  ackf |-> FALSE, seq |-> Mk32(0), ack |-> Mk32(0), src |-> CliIP],
      [syn |-> TRUE,  ackf |-> TRUE,  seq |-> Mk32(0), ack |-> Mk32(1), src |-> SrvIP],
      [syn |-> FALSE, ackf |-> TRUE,  seq |-> Mk32(1), ack |-> Mk32(1), src |-> CliIP]>>

ShapeOf(f) ==
    [syn |-> IsSyn(f), ackf |-> HasAck(f), seq |-> FrameSeq(f), ack |-> FrameAck(f),
     src |-> f.src]

\* Dial, Accept and ReadFrom calls only: no write has failed, the reconnect
\* goroutine has not woken, and WriteTo was not called.
HandshakeOnly ==
    /\ env.fails = 0
    /\ \A c \in ConnIds :
          IsOpen(c) => conn[c].cycles = 0 /\ conn[c].rc # "syn" /\ conn[c].writers = << >>

\* The client's ReadFrom has met the SYN+ACK and returned.
ClientReadSynAck ==
    IsOpen("cli") /\ conn["cli"].isConnected /\ conn["cli"].rd.pc = "idle"

\* C9: with Dial, Accept and ReadFrom alone the wire carries, in this order
\* and nothing else, a SYN (Seq 0, Ack 0), a SYN+ACK (0, 1) and an ACK (1, 1);
\* once the client's ReadFrom of the SYN+ACK has returned all three are there,
\* it returned 0 bytes and no error, the client is connected, and each side
\* holds seq 1 and ack 1 for the other.
C9_Handshake ==
    HandshakeOnly =>
        /\ Len(wire) <= 3
        /\ \A j \in DOMAIN wire : Len(wire[j].body) = TcpHdrLen /\ ShapeOf(wire[j]) = HandshakeShape[j]
        /\ ClientReadSynAck =>
              /\ Len(wire) = 3
              /\ conn["cli"].lastRead.n = 0
              /\ conn["cli"].lastRead.err = ""
              /\ conn["cli"].clients[SrvAddr] = ClientIndicator(Mk32(1), Mk32(1))
              /\ IsOpen("srv")
              /\ conn["srv"].clients[CliAddr] = ClientIndicator(Mk32(1), Mk32(1))

\* The handshake has run to its end.
C9_Witness ==
    HandshakeOnly /\ ClientReadSynAck /\ Len(wire) = 3 /\ listener.accepts = <<"conn">>

\* C10 as stated: a WriteTo to an address without a client returns the
\* unrecognized error and 0.
C10_UnknownPeerUnrecognized ==
    \A c \in ConnIds :
        IsOpen(c) /\ ~conn[c].lastWrite.known =>
            conn[c].lastWrite.err = "unrecognized" /\ conn[c].lastWrite.n = 0

\* C10, amended: a WriteTo to an address without a client returns 0 and an
\* error, which is the unrecognized error or, when the write deadline is set,
\* the timeout error of the timer that got ahead of the writer goroutine;
\* its writer goroutine writes no frame and advances nothing, no client is
\* recorded for the address and no frame to it is on the wire.
C10_UnknownPeerNoEffect ==
    \A c \in ConnIds :
        IsOpen(c) =>
            /\ OtherAddr \notin DOMAIN conn[c].clients
            /\ \A j \in DOMAIN wire : wire[j].dst # OtherAddr[1]
            /\ \A k \in DOMAIN conn[c].writers :
                  LET w == conn[c].writers[k]
                  IN  ~w.known =>
                        /\ w.wrote = 0
                        /\ ~w.advanced
                        /\ w.pc \in {"lock", "send", "exit"}
                        /\ w.pc # "lock" => w.err = "unrecognized"
            /\ ~conn[c].lastWrite.known =>
                  /\ conn[c].lastWrite.n = 0
                  /\ conn[c].lastWrite.err \in {"unrecognized", "timeout"}
                  /\ conn[c].lastWrite.err = "timeout" => conn[c].lastWrite.armed

\* A WriteTo to an address without a client returned the timeout error.
C10_Witness ==
    /\ IsOpen("cli")
    /\ ~conn["cli"].lastWrite.known
    /\ conn["cli"].lastWrite.err = "timeout"
    /\ \E k \in DOMAIN conn["cli"].writers : ~conn["cli"].writers[k].known

\* The ReadFrom call of Conn c is about to be handed a packet that is not a
\* SYN, has a payload, and comes from an address without a client.
UnknownDataAhead(c) ==
    /\ IsOpen(c)
    /\ conn[c].rd.pc = "wait"
    /\ conn[c].readers # << >>
    /\ LET rr == conn[c].readers[Len(conn[c].readers)]
       IN  /\ rr.pc = "send"
           /\ rr.err = ""
           /\ LET ind == ParsePacket(rr.packet)
              IN  /\ ind.proto = "tcp"
                  /\ ~ind.syn
                  /\ ind.app # << >>
                  /\ ind.src \notin DOMAIN conn[c].clients

\* C11: the ReadFrom that is handed a packet with a payload, not a SYN, from an
\* address without a client returns 0 and the unauthorized error and leaves
\* the clients (the records and their ack) as they are; a Conn starts with
\* the one client of its remote address (Dial's SYN, Accept), and a client is
\* added only by the handshake reply to a SYN without ACK, for its source.
C11_UnauthorizedRead ==
    [][\A c \in ConnIds :
          /\ (UnknownDataAhead(c) /\ conn'[c].rd.pc = "idle") =>
                /\ conn'[c].lastRead.n = 0
                /\ conn'[c].lastRead.err = "unauthorized"
                /\ conn'[c].clients = conn[c].clients
          /\ (~IsOpen(c) /\ conn'[c].open) => DOMAIN conn'[c].clients = {conn'[c].dstAddr}
          /\ (IsOpen(c) /\ DOMAIN conn'[c].clients # DOMAIN conn[c].clients) =>
                /\ conn[c].rd.pc = "handshake"
                /\ ~conn[c].rd.indicator.ackf
                /\ DOMAIN conn'[c].clients = DOMAIN conn[c].clients \cup {conn[c].rd.indicator.src}
      ]_vars

\* A ReadFrom returned the unauthorized error.
C11_Witness ==
    /\ IsOpen("cli")
    /\ conn["cli"].lastRead.err = "unauthorized"
    /\ conn["cli"].rd.pc = "idle"
    /\ DOMAIN conn["cli"].clients = {SrvAddr}

\* C12 as stated, for the client: while the SYN+ACK has not been received
\* (isConnected is false) no data packet of the Conn is on the wire and no
\* ReadFrom has returned bytes.
C12_EstablishedOnly ==
    (IsOpen("cli") /\ ~conn["cli"].isConnected) =>
        /\ \A j \in DOMAIN wire : wire[j].src = CliIP => ~IsData(wire[j])
        /\ conn["cli"].lastRead.n = 0

\* The writer goroutines of Conn c that have put a frame on the wire.
Wrote(c) == {k \in DOMAIN conn[c].writers : conn[c].writers[k].wrote > 0}

\* C13 as stated: the frames of one write lie on the wire one after the
\* other in fragment order, with nothing between them, and the frames of
\* WriteTo calls lie in the order of the calls, also after a call that
\* returned the timeout error.
C13_WriteOrdering ==
    IsOpen("cli") =>
        /\ \A k \in Wrote("cli") :
              LET w == conn["cli"].writers[k]
              IN  /\ w.at + w.wrote <= Len(wire)
                  /\ wire[w.at + 1].off = 0
                  /\ FrameSeq(wire[w.at + 1]) = w.seq
                  /\ \A i \in 2..w.wrote :
                        /\ wire[w.at + i].id = wire[w.at + 1].id
                        /\ wire[w.at + i].off > wire[w.at + i - 1].off
        /\ \A j, k \in Wrote("cli") :
              j < k => conn["cli"].writers[j].at < conn["cli"].writers[k].at

\* C14 as stated: once Close has returned, the reconnect goroutine does not
\* clear isReconnected, does not call handshakeSYN (whose WritePacketData is
\* the raw Write; cycles counts these calls) and does not advance the peer's
\* Seq or c.id, whatever the goroutine was doing when Close ran.
C14_CloseStopsReconnect ==
    [][(IsOpen("cli") /\ conn["cli"].isClosed) =>
          /\ conn'["cli"].cycles = conn["cli"].cycles
          /\ conn'["cli"].rc # conn["cli"].rc =>
                /\ conn["cli"].isReconnected => conn'["cli"].isReconnected
                /\ conn'["cli"].clients = conn["cli"].clients
                /\ conn'["cli"].id = conn["cli"].id
      ]_vars

\* C15 as stated: a WriteTo call returns the timeout error only if the write
\* deadline it was called under is not zero and has been reached, whatever
\* the read deadline is.
C15_WriteDeadlineOnly ==
    [][(/\ IsOpen("cli")
        /\ conn["cli"].wr.pc = "wait"
        /\ conn'["cli"].wr.pc = "idle"
        /\ conn'["cli"].lastWrite.err = "timeout") =>
          /\ conn["cli"].wr.deadline # 0
          /\ now >= conn["cli"].wr.deadline
      ]_vars

\* C16 as stated, where SetDeadline is the only setter called: when no
\* SetDeadline call is running, the read and the write deadline are the value
\* of one call (they are equal), and a WriteTo call finds the two deadlines
\* equal when it starts.
C16_SetDeadlineAtomic ==
    IsOpen("cli") =>
        /\ (\A k \in Callers : conn["cli"].sd[k].pc = "idle") =>
              conn["cli"].readDeadline = conn["cli"].writeDeadline
        /\ conn["cli"].wr.pc = "wait" => conn["cli"].wr.timer = conn["cli"].wr.deadline

\* The reader goroutines of Conn c that are in their loop of ReadPacket and
\* defrag.Append.
Draining(c) == {k \in DOMAIN conn[c].readers : conn[c].readers[k].pc = "run"}

\* C17 as stated: at every moment at most one goroutine of the Conn is in the
\* loop that calls ReadPacket and the defragmenter's Append, also after a
\* ReadFrom call has returned the timeout error and a later one has started.
C17_OneReader ==
    IsOpen("cli") => Cardinality(Draining("cli")) <= 1

\* The writer goroutine of the last WriteTo call of Conn c.
LastWriter(c) == conn[c].writers[Len(conn[c].writers)]

\* C18 as stated: a WriteTo call that returned an error (the timeout error and
\* a failed raw write of a later fragment included) has none of its frames on
\* the wire and has not advanced client.seq or c.id, at the return and ever
\* after.
C18_AllOrNone ==
    (/\ IsOpen("cli")
     /\ conn["cli"].wr.pc = "idle"
     /\ conn["cli"].writers # << >>
     /\ conn["cli"].lastWrite.err # "") =>
        /\ LastWriter("cli").wrote = 0
        /\ ~LastWriter("cli").advanced

\* C19 as stated, for a packet that is not TCP: when the reader goroutine has
\* put a captured packet together and ReadFrom takes it, ReadFrom does not
\* panic on the packet's transport layer.
C19_NoPanicOnTransport ==
    IsOpen("cli") => conn["cli"].rd.pc # "panic"

\* Goroutine k of the given kind has its outcome ready to send on the call's
\* channel / has sent it and returned.
HasOutcome(c, kind, k) ==
    IsOpen(c) /\ k \in DOMAIN conn[c][kind] /\ conn[c][kind][k].pc = "send"
Returned(c, kind, k) ==
    IsOpen(c) /\ k \in DOMAIN conn[c][kind] /\ conn[c][kind][k].pc = "exit"

\* C20 as stated: a reader or writer goroutine whose raw I/O has returned
\* eventually hands its outcome over and terminates, also when the timer has
\* delivered the timeout error before it.
C20_LoserTerminates ==
    \A k \in 1..MaxCalls :
        /\ HasOutcome("cli", "writers", k) ~> Returned("cli", "writers", k)
        /\ HasOutcome("cli", "readers", k) ~> Returned("cli", "readers", k)

\* C21 as stated: ReadFrom never returns the error of a captured packet that
\* does not parse; the reader goroutine skips such a packet.
C21_ParseFailureSkipped ==
    IsOpen("cli") => conn["cli"].lastRead.err # "parse"

\* ReadFrom of Conn c is about to take a data packet from its reader
\* goroutine, and the packet it takes.
DataAhead(c) ==
    /\ IsOpen(c)
    /\ conn[c].rd.pc = "wait"
    /\ conn[c].readers # << >>
    /\ LET rr == conn[c].readers[Len(conn[c].readers)]
       IN  /\ rr.pc = "send"
           /\ rr.err = ""
           /\ ParsePacket(rr.packet).proto = "tcp"
           /\ ~ParsePacket(rr.packet).syn
           /\ ParsePacket(rr.packet).app # << >>
Incoming(c) == ParsePacket(conn[c].readers[Len(conn[c].readers)].packet)

\* 0xFFFFFFFF - seq < len(payload) for the packet ReadFrom takes.
Wraps(c) == Lt32(Neg32(Incoming(c).seq), Mk32(Len(Incoming(c).app)))

\* The peers Conn c has a client for before and after a step.
Peers(c) == IF IsOpen(c) THEN DOMAIN conn[c].clients \cap DOMAIN conn'[c].clients ELSE {}

\* A step moved the peer's Seq as a sent SYN or SYN+ACK or a sent data packet
\* moves it.
SeqStep(c, a) ==
    \/ /\ conn'[c].clients[a].seq = Add32(conn[c].clients[a].seq, 1)
       /\ Len(wire') = Len(wire) + 1
       /\ IsSyn(wire'[Len(wire')])
    \/ \E k \in DOMAIN conn[c].writers :
          /\ conn[c].writers[k].pc = "write"
          /\ conn'[c].writers[k].pc = "send"
          /\ conn'[c].clients[a].seq = Add32(conn[c].clients[a].seq, conn[c].writers[k].contents)

\* C22 as stated: a peer's ack becomes smaller only by a data packet for which
\* 0xFFFFFFFF - seq < len(payload) holds, and its Seq moves only by +1 with a
\* SYN or SYN+ACK sent and by the ciphertext length with a data packet.
C22_MonotonicPeerState ==
    [][\A a \in Peers("cli") :
          /\ Lt32(conn'["cli"].clients[a].ack, conn["cli"].clients[a].ack) =>
                DataAhead("cli") /\ Wraps("cli")
          /\ conn'["cli"].clients[a].seq # conn["cli"].clients[a].seq => SeqStep("cli", a)
      ]_vars

\* C22 with the handshake: a received SYN or SYN+ACK sets the peer's ack to
\* the packet's Seq + 1 whatever it was, so the ack can become smaller; a data
\* packet changes it only to Seq + len(payload), when that is greater or the
\* packet wraps; nothing else changes it.  Seq moves as C22 states.
C22_PeerStateSteps ==
    [][\A a \in Peers("cli") :
          /\ (conn["cli"].rd.pc = "handshake" /\ conn'["cli"].rd.pc = "idle"
                /\ conn["cli"].rd.indicator.src = a) =>
                conn'["cli"].clients[a].ack = Add32(conn["cli"].rd.indicator.seq, 1)
          /\ conn'["cli"].clients[a].ack # conn["cli"].clients[a].ack =>
                \/ /\ conn["cli"].rd.pc = "handshake"
                   /\ conn["cli"].rd.indicator.src = a
                \/ /\ DataAhead("cli")
                   /\ Incoming("cli").src = a
                   /\ conn'["cli"].clients[a].ack =
                         Add32(Incoming("cli").seq, Len(Incoming("cli").app))
                   /\ \/ Gt32(conn'["cli"].clients[a].ack, conn["cli"].clients[a].ack)
                      \/ Wraps("cli")
          /\ conn'["cli"].clients[a].seq # conn["cli"].clients[a].seq => SeqStep("cli", a)
      ]_vars

\* A SYN+ACK has lowered the peer's ack: data had raised it past the Seq of
\* the SYN+ACK that ReadFrom then answered.
C22_Witness ==
    /\ IsOpen("cli")
    /\ conn["cli"].rd.pc = "idle"
    /\ conn["cli"].lastAck # Nil
    /\ Gt32(conn["cli"].lastAck.new, Add32(ForgedSeq, 1))
    /\ conn["cli"].clients[SrvAddr].ack = Add32(ForgedSeq, 1)

\* The fragments of the indicator that the k-th Append call of SpecDefrag added
\* to: those appended since the call before it that installed a fresh
\* indicator (the first call, the call after a completed packet, a call later
\* than the deadline after the one before it).
Fresh(k) ==
    \/ k = 1
    \/ appendOut[k - 1] # Nil
    \/ defragDeadline > 0 /\ fed[k].at - fed[k - 1].at > defragDeadline
Current(k) ==
    {j \in 1..k : \A i \in (j + 1)..k : ~Fresh(i)}

\* The sum of the payload lengths of the MF fragments among the calls js.
RECURSIVE MfLength(_)
MfLength(js) ==
    IF js = {} THEN 0
    ELSE LET j == CHOOSE x \in js : TRUE
         IN  (IF fed[j].ind.mf THEN Len(fed[j].ind.body) ELSE 0) + MfLength(js \ {j})

\* C23 as stated: an Append call returns a packet only if a final fragment
\* (MF = 0) is among the fragments of the current indicator and length / 8 is
\* that fragment's offset.
C23_CompletionNeedsFinal ==
    \A k \in DOMAIN appendOut :
        appendOut[k] # Nil =>
            \E j \in Current(k) :
                /\ ~fed[j].ind.mf
                /\ MfLength(Current(k)) \div 8 = fed[j].ind.off

\* C24 as stated: while a writer goroutine holds c.lock, between building the
\* headers and the raw write, no other task changes a peer's ack or Seq or
\* c.id; only the holder advances Seq and c.id, after its last frame.
C24_PeerStateUnderLock ==
    [][(IsOpen("cli") /\ conn["cli"].lock) =>
          LET holder == \E k \in DOMAIN conn["cli"].writers :
                            /\ conn["cli"].writers[k].pc = "write"
                            /\ conn'["cli"].writers[k].pc = "send"
          IN  /\ \A a \in Peers("cli") :
                    /\ conn'["cli"].clients[a].ack = conn["cli"].clients[a].ack
                    /\ conn'["cli"].clients[a].seq # conn["cli"].clients[a].seq => holder
              /\ conn'["cli"].id # conn["cli"].id => holder
      ]_vars

RECURSIVE BodyLength(_)
BodyLength(js) ==
    IF js = {} THEN 0
    ELSE LET j == CHOOSE x \in js : TRUE
         IN  Len(fed[j].ind.body) + BodyLength(js \ {j})

C26_FragmenterProgress ==
    [][(fragment - NetHdrLen >= 8 /\ fpc = "loop" /\ fpc' = "loop"
          /\ Len(fragments') > Len(fragments)) =>
          /\ Len(fragments'[Len(fragments')].body) > 0
          /\ fi' > fi
      ]_vars

====
